---- MODULE Spec2Model ----
(***************************************************************************)
(* The onboarding checklist bot of src/app.py: one SQLite connection and   *)
(* one cursor shared by every handler, a table onboarding_progress keyed   *)
(* by (user_id, task_id), and four handlers (app_home_opened, team_join,   *)
(* the task_toggle_ action, the /onboard command) that the Bolt app runs   *)
(* on a pool of threads.                                                   *)
(*                                                                         *)
(* Every cur.execute, cur.fetchall, conn.commit and client call is one     *)
(* step of the thread that makes it.  Spec interleaves the threads step by *)
(* step and drives them with the payloads the published views produce;     *)
(* SpecSeq runs one handler at a time and drives it with any payload.      *)
(* SpecScenario runs a worked sequence of four events, SpecRoundTrip       *)
(* resolves the action ids of the whole catalog, SpecFail adds store calls *)
(* that raise, and SpecLive adds fair scheduling of the handler threads.   *)
(***************************************************************************)
EXTENDS Integers, Sequences, FiniteSets, TLC

\* ------------------------------------------------------------------ bounds

\* Handler invocations that Spec runs concurrently (one thread each).
MaxEvents == 2

\* Handler invocations that SpecSeq runs one after the other.
SeqEvents == 2

\* ------------------------------------------------------------ text values

\* A str is modelled as the sequence of its characters, so that lower()
\* and replace() are computed and not assumed.
UpperChars == <<"A","B","C","D","E","F","G","H","I","J","K","L","M",
                "N","O","P","Q","R","S","T","U","V","W","X","Y","Z">>

LowerChars == <<"a","b","c","d","e","f","g","h","i","j","k","l","m",
                "n","o","p","q","r","s","t","u","v","w","x","y","z">>

\* str.lower() on one character.
LowerChar(c) ==
    IF \E k \in 1..Len(UpperChars) : UpperChars[k] = c
    THEN LowerChars[CHOOSE k \in 1..Len(UpperChars) : UpperChars[k] = c]
    ELSE c

\* str.upper() on one character (only used to build inputs).
UpperChar(c) ==
    IF \E k \in 1..Len(LowerChars) : LowerChars[k] = c
    THEN UpperChars[CHOOSE k \in 1..Len(LowerChars) : LowerChars[k] = c]
    ELSE c

\* str.lower()
Lower(s) == [k \in 1..Len(s) |-> LowerChar(s[k])]

Upper(s) == [k \in 1..Len(s) |-> UpperChar(s[k])]

\* s.replace(old, "", 1): the first occurrence of old is removed.
ReplaceFirst(s, old) ==
    LET n == Len(old)
        at == {k \in 1..(Len(s) - n + 1) : SubSeq(s, k, k + n - 1) = old}
    IN  IF at = {} THEN s
        ELSE LET k == CHOOSE x \in at : \A y \in at : x <= y
             IN  SubSeq(s, 1, k - 1) \o SubSeq(s, k + n, Len(s))

\* "task_toggle_"
TogglePrefix == <<"t","a","s","k","_","t","o","g","g","l","e","_">>

Paperwork == <<"P","a","p","e","r","w","o","r","k">>

Integration == <<"I","n","t","e","g","r","a","t","i","o","n">>

Workflow == <<"W","o","r","k","f","l","o","w">>

Culture == <<"C","u","l","t","u","r","e">>

\* -------------------------------------------------------------- the catalog

\* TASKS of the source: id and group of every task, in order.
TASKS == <<
    [id |-> "welcome_letter",      group |-> Paperwork],
    [id |-> "nda",                 group |-> Paperwork],
    [id |-> "offer_letter",        group |-> Paperwork],
    [id |-> "volunteer_agreement", group |-> Paperwork],
    [id |-> "contract",            group |-> Paperwork],
    [id |-> "upload_docs",         group |-> Paperwork],
    [id |-> "staff_directory",     group |-> Integration],
    [id |-> "chapter_handbook",    group |-> Integration],
    [id |-> "brand_center",        group |-> Integration],
    [id |-> "pd_recordings",       group |-> Integration],
    [id |-> "role_checklist",      group |-> Workflow],
    [id |-> "setup_workflow",      group |-> Workflow],
    [id |-> "coffee_chat_1",       group |-> Culture],
    [id |-> "coffee_chat_2",       group |-> Culture],
    [id |-> "coffee_chat_3",       group |-> Culture] >>

\* The state machine runs on this part of TASKS, in the order of TASKS: two
\* tasks of the first group and one of the second.  The handlers loop over
\* the catalog and never look at its length, so the loops below are those
\* of the source on a shorter list.
CatalogIndex == <<1, 2, 7>>

Catalog == [k \in 1..Len(CatalogIndex) |-> TASKS[CatalogIndex[k]]]

NTasks == Len(Catalog)

CatalogIds == {Catalog[k].id : k \in 1..NTasks}

\* A value that is the id of no task.
ForeignId == "not_a_task"

\* Every task_id a row or a payload may carry.
TaskIds == CatalogIds \cup {ForeignId}

Users == {"U1", "U2"}

\* group_names_in_order(): the groups by first appearance.
RECURSIVE GroupNamesUpTo(_)
GroupNamesUpTo(k) ==
    IF k = 0 THEN <<>>
    ELSE LET seen == GroupNamesUpTo(k - 1)
             g == Catalog[k].group
         IN  IF \E j \in 1..Len(seen) : seen[j] = g THEN seen ELSE Append(seen, g)

group_names_in_order == GroupNamesUpTo(NTasks)

\* tasks_by_group()[g]: the ids of the tasks of group g, in catalog order.
IsInGroup(g, t) == t.group = g

tasks_by_group(g) ==
    LET items == SelectSeq(Catalog, LAMBDA t : IsInGroup(g, t))
    IN  [k \in 1..Len(items) |-> items[k].id]

SeqRange(s) == {s[k] : k \in 1..Len(s)}

\* The task ids of the group with exactly this name.
GroupIds(g) == SeqRange(tasks_by_group(g))

GroupNames == SeqRange(group_names_in_order)

\* ------------------------------------------------------------------- state

\* conn and cur are module globals: every handler thread uses the same
\* connection and the same cursor.  Hence
\*   - there is one transaction: an INSERT or UPDATE is seen at once by the
\*     SELECT of any handler, and conn.commit() of any handler commits all
\*     that any handler has written so far;
\*   - cur.execute replaces the result the cursor holds, so cur.fetchall
\*     returns the rows of the statement executed last, by whichever
\*     thread, and returns them once.
\* Each call into sqlite3 is one atomic step (the library serialises the
\* calls on a connection).  Store calls fail only in SpecFail and SpecLive.
\* A table is a function from keys to the list of rows stored under the
\* key, so that a key stored twice can be told from a key stored once.

VARIABLES
    db,         \* onboarding_progress as the shared connection sees it:
                \* db[u][t] is the list of rows stored under key (u, t)
    committed,  \* onboarding_progress as of the last conn.commit()
    cursor,     \* the rows the shared cursor still has to hand out
    published,  \* published[u]: the view last published for user u
    messages,   \* messages[u]: chat messages posted to user u
    clock,      \* the wall clock datetime.now() reads
    hs,         \* hs[h]: the handler invocation running on thread h
    dispatched, \* events accepted so far
    pre         \* SpecSeq only: the table when the current handler began

vars == <<db, committed, cursor, published, messages, clock, hs, dispatched, pre>>

Threads == 1..MaxEvents

NoView == [type |-> "none"]

EmptyTable == [u \in Users |-> [t \in TaskIds |-> <<>>]]

\* The locals of a handler invocation.  before, racedWith and precededBy are
\* history: what set_done_bulk found, and which toggles of the same user
\* had read or had written when this one first wrote.
Idle == [pc |-> "idle", kind |-> "none", user |-> "none", action_id |-> <<>>,
         selected |-> {}, group_task_ids |-> {}, current_done |-> {},
         new_done |-> {}, now |-> 0, i |-> 0, done |-> {}, view |-> NoView,
         before |-> {}, racedWith |-> {}, precededBy |-> {}]

Init ==
    /\ db = EmptyTable
    /\ committed = EmptyTable
    /\ cursor = {}
    /\ published = [u \in Users |-> NoView]
    /\ messages = [u \in Users |-> 0]
    /\ clock = 1
    /\ hs = [h \in Threads |-> Idle]
    /\ dispatched = 0
    /\ pre = EmptyTable

\* ------------------------------------------------------------ the SQL used

\* INSERT OR REPLACE in place of INSERT OR IGNORE: a taken key is overwritten.
InsertOrReplace(tbl, u, t, now) ==
    [tbl EXCEPT ![u][t] = <<[done |-> 0, updated_at |-> now]>>]

\* A plain INSERT into a table without the PRIMARY KEY: a row is added
\* whether or not the key is taken.
InsertPlain(tbl, u, t, now) ==
    [tbl EXCEPT ![u][t] = Append(@, [done |-> 0, updated_at |-> now])]

\* INSERT OR IGNORE INTO onboarding_progress VALUES(u, t, 0, now): the
\* PRIMARY KEY (user_id, task_id) makes the insert a no-op when the key is
\* taken.
InsertOrIgnore(tbl, u, t, now) ==
    IF tbl[u][t] = <<>>
    THEN [tbl EXCEPT ![u][t] = <<[done |-> 0, updated_at |-> now]>>]
    ELSE tbl

\* An UPDATE that only ever sets done=1 and skips the tasks to clear.
UpdateDoneIfSet(tbl, u, t, is_done, now) ==
    IF is_done = 1
    THEN [tbl EXCEPT ![u][t] =
            [k \in DOMAIN @ |-> [done |-> is_done, updated_at |-> now]]]
    ELSE tbl

\* UPDATE onboarding_progress SET done=?, updated_at=? WHERE user_id=? AND
\* task_id=?: every row under the key is rewritten, none is created.
UpdateDone(tbl, u, t, is_done, now) ==
    [tbl EXCEPT ![u][t] =
        [k \in DOMAIN @ |-> [done |-> is_done, updated_at |-> now]]]

\* SELECT task_id FROM onboarding_progress WHERE user_id=? AND done=1
SelectDone(tbl, u) ==
    {t \in TaskIds : \E k \in DOMAIN tbl[u][t] : tbl[u][t][k].done = 1}

\* ------------------------------------------------------- build_home_view

\* The action id written without .lower(): f"task_toggle_{group_name}".
ActionIdAsWritten(g) == TogglePrefix \o g

\* f"task_toggle_{group_name.lower()}"
ActionIdOf(g) == TogglePrefix \o Lower(g)

\* The checkboxes element built without the test on initial: the field
\* initial_options is always set, to an empty list when no task is done.
CheckboxElementAlways(g, done) ==
    LET items == tasks_by_group(g)
        initial == SelectSeq(items, LAMBDA t : t \in done)
    IN  [type |-> "checkboxes", action_id |-> ActionIdOf(g), options |-> items,
         initial_options |-> initial]

\* The checkboxes element of one group: initial_options is set only when
\* some task of the group is done.
CheckboxElement(g, done) ==
    LET items == tasks_by_group(g)
        initial == SelectSeq(items, LAMBDA t : t \in done)
        el == [type |-> "checkboxes", action_id |-> ActionIdOf(g), options |-> items]
    IN  IF initial # <<>> THEN el @@ [initial_options |-> initial] ELSE el

\* The section line written with len(done) in place of group_done_count.
GroupBlocksAllDone(g, done) ==
    LET items == tasks_by_group(g)
    IN  [group |-> g,
         count |-> <<Cardinality(done), Len(items)>>,
         element |-> CheckboxElement(g, done)]

\* The section line and the actions block of one group.
GroupBlocks(g, done) ==
    LET items == tasks_by_group(g)
    IN  [group |-> g,
         count |-> <<Cardinality({t \in SeqRange(items) : t \in done}), Len(items)>>,
         element |-> CheckboxElement(g, done)]

\* build_home_view, given the set get_done_set returned.
BuildHomeView(done) ==
    [type |-> "home",
     progress |-> <<Cardinality(done), NTasks>>,
     groups |-> [k \in 1..Len(group_names_in_order) |->
                    GroupBlocks(group_names_in_order[k], done)]]

\* The task ids a view shows as checked.
Checked(view) ==
    UNION {IF "initial_options" \in DOMAIN view.groups[k].element
           THEN SeqRange(view.groups[k].element.initial_options)
           ELSE {} : k \in 1..Len(view.groups)}

\* ------------------------------------------------ handle_toggle_any_group

\* action_id.replace("task_toggle_", "", 1)
GroupKey(action_id) == ReplaceFirst(action_id, TogglePrefix)

\* {t["id"] for t in tasks if t["group"].lower() == group_key}
TaskIdsOfKey(tasks, group_key) ==
    {tasks[k].id : k \in {j \in DOMAIN tasks : Lower(tasks[j].group) = group_key}}

\* {t["id"] for t in TASKS if t["group"].lower() == group_key}
GroupTaskIds(group_key) == TaskIdsOfKey(Catalog, group_key)

\* The naive write: the reported selection taken as the whole new state.
NewDoneNaive(current_done, group_task_ids, selected_ids) == selected_ids

\* (current_done - group_task_ids) | selected_ids
NewDone(current_done, group_task_ids, selected_ids) ==
    (current_done \ group_task_ids) \cup selected_ids

\* 1 if t["id"] in new_done_ids else 0
IsDone(t, new_done_ids) == IF t \in new_done_ids THEN 1 ELSE 0

\* ------------------------------------------------------------- dispatching

Finished(h) == hs[h].pc \in {"idle", "done"}

\* A thread is free for the next event.  With seq an event is accepted only
\* when no handler is running.
CanAccept(h, seq) ==
    IF seq
    THEN h = 1 /\ dispatched < SeqEvents /\ \A j \in Threads : Finished(j)
    ELSE hs[h].pc = "idle" /\ \A j \in Threads : j < h => hs[j].pc # "idle"

\* The Bolt app hands an accepted event to a free thread.  With seq the
\* table is remembered in pre, and the threads that returned are cleared.
Accept(h, rec, seq) ==
    /\ CanAccept(h, seq)
    /\ dispatched' = dispatched + 1
    /\ IF seq
       THEN /\ hs' = [j \in Threads |-> IF j = h THEN rec ELSE Idle]
            /\ pre' = db
       ELSE /\ hs' = [hs EXCEPT ![h] = rec]
            /\ pre' = pre

\* A handler whose first call is ensure_user_rows(user_id), which reads the
\* clock on entry.
EnsureFirst(kind, u) ==
    [Idle EXCEPT !.pc = "ensure", !.kind = kind, !.user = u, !.now = clock, !.i = 1]

\* @app.event("app_home_opened")
handle_home_opened(h, u, seq) ==
    /\ Accept(h, EnsureFirst("home_opened", u), seq)
    /\ clock' = clock + 1
    /\ UNCHANGED <<db, committed, cursor, published, messages>>

\* @app.event("team_join")
handle_team_join(h, u, seq) ==
    /\ Accept(h, EnsureFirst("team_join", u), seq)
    /\ clock' = clock + 1
    /\ UNCHANGED <<db, committed, cursor, published, messages>>

\* @app.command("/onboard")
cmd_onboard(h, u, seq) ==
    /\ Accept(h, EnsureFirst("onboard", u), seq)
    /\ clock' = clock + 1
    /\ UNCHANGED <<db, committed, cursor, published, messages>>

\* The toggle handler up to its first store call: the group and the
\* selection are taken from the payload.
ToggleFirst(u, action_id, selected_ids) ==
    [Idle EXCEPT !.pc = "read_exec", !.kind = "toggle", !.user = u,
                 !.action_id = action_id,
                 !.selected = selected_ids,
                 !.group_task_ids = GroupTaskIds(GroupKey(action_id))]

\* @app.action(re.compile(r"^task_toggle_")): ack, then the group and the
\* selection are taken from the payload.
handle_toggle_any_group(h, u, action_id, selected_ids, seq) ==
    /\ Accept(h, ToggleFirst(u, action_id, selected_ids), seq)
    /\ UNCHANGED <<db, committed, cursor, published, messages, clock>>

\* ------------------------------------------------------------ get_done_set

\* cur.execute(SELECT ...) on the shared cursor: its result replaces
\* whatever the cursor held.
get_done_set_execute(h) ==
    /\ hs[h].pc \in {"read_exec", "view_exec"}
    /\ cursor' = SelectDone(db, hs[h].user)
    /\ hs' = [hs EXCEPT ![h].pc = IF @ = "read_exec" THEN "read_fetch" ELSE "view_fetch"]
    /\ UNCHANGED <<db, committed, published, messages, clock, dispatched, pre>>

\* cur.fetchall(): the rows the shared cursor holds now, which it hands out
\* once.  In the toggle handler the merge and the entry of
\* ensure_user_rows follow; in build_home_view the view is built.
get_done_set_fetch(h) ==
    /\ hs[h].pc \in {"read_fetch", "view_fetch"}
    /\ cursor' = {}
    /\ IF hs[h].pc = "read_fetch"
       THEN /\ hs' = [hs EXCEPT ![h].current_done = cursor,
                                ![h].new_done = NewDone(cursor, hs[h].group_task_ids,
                                                        hs[h].selected),
                                ![h].pc = "ensure",
                                ![h].now = clock,
                                ![h].i = 1]
            /\ clock' = clock + 1
       ELSE /\ hs' = [hs EXCEPT ![h].done = cursor,
                                ![h].view = BuildHomeView(cursor),
                                ![h].pc = "publish"]
            /\ clock' = clock
    /\ UNCHANGED <<db, committed, published, messages, dispatched, pre>>

\* -------------------------------------------------------- ensure_user_rows

\* The loop written so that it moves on to the next task only after an
\* insert that added a row: on a key that is taken it tries the same task
\* again.
ensure_user_rows_insert_retry(h) ==
    /\ hs[h].pc = "ensure"
    /\ db' = InsertOrIgnore(db, hs[h].user, Catalog[hs[h].i].id, hs[h].now)
    /\ cursor' = {}
    /\ hs' = IF db' = db THEN hs
             ELSE [hs EXCEPT ![h].i = @ + 1,
                             ![h].pc = IF hs[h].i = NTasks THEN "ensure_commit"
                                       ELSE "ensure"]
    /\ UNCHANGED <<committed, published, messages, clock, dispatched, pre>>

\* One turn of the loop: INSERT OR IGNORE for task i.
ensure_user_rows_insert(h) ==
    /\ hs[h].pc = "ensure"
    /\ db' = InsertOrIgnore(db, hs[h].user, Catalog[hs[h].i].id, hs[h].now)
    /\ cursor' = {}
    /\ hs' = [hs EXCEPT ![h].i = @ + 1,
                        ![h].pc = IF hs[h].i = NTasks THEN "ensure_commit" ELSE "ensure"]
    /\ UNCHANGED <<committed, published, messages, clock, dispatched, pre>>

\* Threads of the same user's toggles that have read current_done and not
\* yet written (history, for the read-merge-write race).
ReadNotWritten(h) ==
    {f \in Threads \ {h} :
        /\ hs[f].kind = "toggle" /\ hs[f].user = hs[h].user
        /\ \/ hs[f].pc \in {"ensure", "ensure_commit"}
           \/ hs[f].pc = "set" /\ hs[f].i = 1}

\* Threads of the same user's toggles whose set_done_bulk has committed.
Written(h) ==
    {f \in Threads \ {h} :
        /\ hs[f].kind = "toggle" /\ hs[f].user = hs[h].user
        /\ hs[f].pc \in {"view_exec", "view_fetch", "publish", "done"}}

\* conn.commit() of ensure_user_rows, and what the handler calls next: the
\* toggle handler enters set_done_bulk, which reads the clock.
ensure_user_rows_commit(h) ==
    /\ hs[h].pc = "ensure_commit"
    /\ committed' = db
    /\ IF hs[h].kind = "toggle"
       THEN /\ hs' = [hs EXCEPT ![h].pc = "set", ![h].i = 1, ![h].now = clock,
                                ![h].before = SelectDone(db, hs[h].user)]
            /\ clock' = clock + 1
       ELSE /\ hs' = [hs EXCEPT ![h].pc = IF hs[h].kind = "team_join"
                                          THEN "post_message" ELSE "view_exec"]
            /\ clock' = clock
    /\ UNCHANGED <<db, cursor, published, messages, dispatched, pre>>

\* ----------------------------------------------------------- set_done_bulk

\* One turn of the loop: UPDATE for task i.
set_done_bulk_update(h) ==
    /\ hs[h].pc = "set"
    /\ LET t == Catalog[hs[h].i].id
       IN  db' = UpdateDone(db, hs[h].user, t, IsDone(t, hs[h].new_done), hs[h].now)
    /\ cursor' = {}
    /\ hs' = [hs EXCEPT ![h].i = @ + 1,
                        ![h].pc = IF hs[h].i = NTasks THEN "set_commit" ELSE "set",
                        ![h].racedWith = IF hs[h].i = 1 THEN ReadNotWritten(h) ELSE @,
                        ![h].precededBy = IF hs[h].i = 1 THEN Written(h) ELSE @]
    /\ UNCHANGED <<committed, published, messages, clock, dispatched, pre>>

\* conn.commit() of set_done_bulk.
set_done_bulk_commit(h) ==
    /\ hs[h].pc = "set_commit"
    /\ committed' = db
    /\ hs' = [hs EXCEPT ![h].pc = "view_exec"]
    /\ UNCHANGED <<db, cursor, published, messages, clock, dispatched, pre>>

\* ------------------------------------------------------------ client calls

\* client.chat_postMessage(channel=user_id, ...) of handle_team_join.
chat_postMessage(h) ==
    /\ hs[h].pc = "post_message"
    /\ messages' = [messages EXCEPT ![hs[h].user] = @ + 1]
    /\ hs' = [hs EXCEPT ![h].pc = "view_exec"]
    /\ UNCHANGED <<db, committed, cursor, published, clock, dispatched, pre>>

\* client.views_publish(user_id=user_id, view=...): the user's surface is
\* replaced, and the handler returns.
views_publish(h) ==
    /\ hs[h].pc = "publish"
    /\ published' = [published EXCEPT ![hs[h].user] = hs[h].view]
    /\ hs' = [hs EXCEPT ![h].pc = "done"]
    /\ UNCHANGED <<db, committed, cursor, messages, clock, dispatched, pre>>

\* ---------------------------------------------------------- specifications

\* What a handler does once it is running.
Step(h) ==
    \/ get_done_set_execute(h)
    \/ get_done_set_fetch(h)
    \/ ensure_user_rows_insert(h)
    \/ ensure_user_rows_commit(h)
    \/ set_done_bulk_update(h)
    \/ set_done_bulk_commit(h)
    \/ chat_postMessage(h)
    \/ views_publish(h)

Next ==
    \/ \E h \in Threads : CanAccept(h, FALSE) /\ \E u \in Users :
          handle_home_opened(h, u, FALSE)
    \/ \E h \in Threads : CanAccept(h, FALSE) /\ \E u \in Users :
          handle_team_join(h, u, FALSE)
    \/ \E h \in Threads : CanAccept(h, FALSE) /\ \E u \in Users :
          cmd_onboard(h, u, FALSE)
    \/ \E h \in Threads : CanAccept(h, FALSE) /\ \E u \in Users, g \in GroupNames :
          \E S \in SUBSET GroupIds(g) :
             handle_toggle_any_group(h, u, ActionIdOf(g), S, FALSE)
    \/ \E h \in Threads : Step(h)

\* Handlers on threads of a pool, interleaved statement by statement, driven
\* by the controls of the published views.
Spec == Init /\ [][Next]_vars

\* The group keys a crafted payload may carry: every catalog group's name
\* in lower case, as written in TASKS and in upper case, and a name of no
\* group.
UnknownKey == <<"b","o","g","u","s">>

Keys == {Lower(g) : g \in GroupNames} \cup GroupNames
        \cup {Upper(g) : g \in GroupNames} \cup {UnknownKey}

NextSeq ==
    \/ \E h \in Threads : CanAccept(h, TRUE) /\ \E u \in Users :
          handle_home_opened(h, u, TRUE)
    \/ \E h \in Threads : CanAccept(h, TRUE) /\ \E u \in Users :
          handle_team_join(h, u, TRUE)
    \/ \E h \in Threads : CanAccept(h, TRUE) /\ \E u \in Users :
          cmd_onboard(h, u, TRUE)
    \/ \E h \in Threads : CanAccept(h, TRUE) /\ \E u \in Users, key \in Keys :
          \E S \in SUBSET TaskIds :
             handle_toggle_any_group(h, u, TogglePrefix \o key, S, TRUE)
    \/ \E h \in Threads : Step(h)

\* One handler at a time, driven by any payload.
SpecSeq == Init /\ [][NextSeq]_vars

\* ------------------------------------------------------------------ claims

IsToggle(h) == hs[h].kind = "toggle"

\* The handler of thread h has returned.
Returned(h) == hs[h].pc = "done"

\* The lower-cased names of the catalog groups.
LowerGroupNames == {Lower(g) : g \in GroupNames}

\* C1: in SpecSeq, when a toggle handler addressed to catalog group G with
\* a selection S inside G's task ids has returned, the user's completed set,
\* as the connection sees it and as committed, is (currentDone - ids(G))
\* united with S, currentDone being the completed set when the handler began.
C1_ScopedMerge ==
    \A h \in Threads, G \in GroupNames :
        (/\ Returned(h) /\ IsToggle(h)
         /\ hs[h].action_id = ActionIdOf(G)
         /\ hs[h].selected \subseteq GroupIds(G))
        => LET u == hs[h].user
               expected == (SelectDone(pre, u) \ GroupIds(G)) \cup hs[h].selected
           IN  /\ SelectDone(db, u) = expected
               /\ SelectDone(committed, u) = expected

\* C1's case: a task of G was done and is cleared, another is newly set, and
\* a done task of another group is kept.
C1_Witness ==
    \E h \in Threads, G \in GroupNames :
        /\ Returned(h) /\ IsToggle(h)
        /\ hs[h].action_id = ActionIdOf(G)
        /\ hs[h].selected \subseteq GroupIds(G)
        /\ hs[h].selected # {}
        /\ LET was == SelectDone(pre, hs[h].user)
           IN  /\ was \cap GroupIds(G) # {}
               /\ was \cap hs[h].selected = {}
               /\ was \ GroupIds(G) # {}
               /\ SelectDone(db, hs[h].user) = (was \ GroupIds(G)) \cup hs[h].selected

\* C2: in SpecSeq, when a toggle handler addressed to catalog group G has
\* returned, whatever its selection, every task outside G has the done value
\* it had when the handler began.
C2_ForeignIdRejected ==
    \A h \in Threads, G \in GroupNames :
        (Returned(h) /\ IsToggle(h) /\ hs[h].action_id = ActionIdOf(G))
        => \A t \in TaskIds \ GroupIds(G) :
              (t \in SelectDone(db, hs[h].user)) <=> (t \in SelectDone(pre, hs[h].user))

\* C3: in SpecSeq, when a toggle handler whose action id names no catalog
\* group (in any letter case) has returned, whatever its selection, the
\* user's completed set is the one it was when the handler began, and the
\* view published for the user is the view of that state.
C3_UnknownGroupNoOp ==
    \A h \in Threads :
        (/\ Returned(h) /\ IsToggle(h)
         /\ Lower(GroupKey(hs[h].action_id)) \notin LowerGroupNames)
        => /\ SelectDone(db, hs[h].user) = SelectDone(pre, hs[h].user)
           /\ published[hs[h].user] = BuildHomeView(SelectDone(db, hs[h].user))

\* C7: in SpecSeq, a toggle handler whose action id carries, after the
\* task_toggle_ prefix, the name of catalog group G in any letter case has
\* resolved group_task_ids to exactly the task ids of G.
C7_CaseInsensitiveGroup ==
    \A h \in Threads, G \in GroupNames :
        (IsToggle(h) /\ Lower(GroupKey(hs[h].action_id)) = Lower(G))
        => hs[h].group_task_ids = GroupIds(G)

\* C8: in SpecSeq, once a handler of user u has returned (each handler ends
\* by publishing u's view), the table holds exactly one row (u, t) for every
\* catalog task t and no row of u for any other task id, as the connection
\* sees it and as committed.
C8_Totality ==
    \A u \in Users :
        published[u] # NoView
        => \A t \in TaskIds :
              /\ Len(db[u][t]) = (IF t \in CatalogIds THEN 1 ELSE 0)
              /\ Len(committed[u][t]) = (IF t \in CatalogIds THEN 1 ELSE 0)

\* C8's case: a later handler of a known user, a toggle whose selection
\* carries an id of no task, has returned.
C8_Witness ==
    \E h \in Threads :
        /\ Returned(h) /\ IsToggle(h)
        /\ ForeignId \in hs[h].selected
        /\ \A t \in CatalogIds : pre[hs[h].user][t] # <<>>
        /\ published[hs[h].user] # NoView

\* ensure_user_rows has returned in the handler of thread h and the handler
\* has not written since.
EnsureReturned(h) ==
    \/ /\ hs[h].kind \in {"home_opened", "team_join", "onboard"}
       /\ hs[h].pc \in {"post_message", "view_exec", "view_fetch", "publish", "done"}
    \/ IsToggle(h) /\ hs[h].pc = "set" /\ hs[h].i = 1

\* C9: in SpecSeq, when ensure_user_rows(u) has returned, every row that
\* existed when the handler began is unchanged (done and updated_at), the
\* only new rows are one row with done = 0 for each catalog task of u that
\* had none, and so a call for a user whose rows all exist leaves the table
\* as it was.
C9_IdempotentInit ==
    \A h \in Threads :
        EnsureReturned(h)
        => /\ \A u \in Users, t \in TaskIds :
                IF pre[u][t] # <<>>
                THEN db[u][t] = pre[u][t]
                ELSE IF u = hs[h].user /\ t \in CatalogIds
                     THEN Len(db[u][t]) = 1 /\ db[u][t][1].done = 0
                     ELSE db[u][t] = <<>>
           /\ (\A t \in CatalogIds : pre[hs[h].user][t] # <<>>) => db = pre

\* C9's case: a repeated call for a user who has a done task.
C9_Witness ==
    \E h \in Threads :
        /\ EnsureReturned(h)
        /\ \A t \in CatalogIds : pre[hs[h].user][t] # <<>>
        /\ \E t \in CatalogIds :
              /\ pre[hs[h].user][t][1].done = 1
              /\ pre[hs[h].user][t][1].updated_at < hs[h].now
              /\ db[hs[h].user][t] = pre[hs[h].user][t]

\* The toggle of thread h is in set_done_bulk.
InSetAll(h) == IsToggle(h) /\ hs[h].pc \in {"set", "set_commit"}

\* The two whole states of a setAll: the one it found and the one it writes.
WholeStates(h) == {hs[h].before, hs[h].new_done \cap CatalogIds}

\* C4: in Spec, while a toggle of user u is in set_done_bulk, no SELECT that
\* another handler executes for u returns, and no commit that another
\* handler issues persists, a completed set of u other than the one the
\* setAll found or the one it writes.
C4_NoPartialWrites ==
    [][\A h \in Threads :
          (InSetAll(h) /\ hs'[h] = hs[h])
          => /\ \A f \in Threads \ {h} :
                  (/\ hs[f].user = hs[h].user
                   /\ hs[f].pc \in {"read_exec", "view_exec"}
                   /\ hs'[f].pc \in {"read_fetch", "view_fetch"})
                  => cursor' \in WholeStates(h)
             /\ committed' # committed
                  => SelectDone(committed', hs[h].user) \in WholeStates(h)]_vars

\* C5: in Spec, once every dispatched handler has returned, the view last
\* published for a user shows as checked exactly the tasks that are done in
\* the table for that user.
C5_ViewMatchesStore ==
    (\A h \in Threads : Finished(h))
    => \A u \in Users :
          published[u] # NoView => Checked(published[u]) = SelectDone(db, u)

\* Toggles e and f of one user on different catalog groups, both returned;
\* f had read current_done and not written when e first wrote, e's
\* set_done_bulk had committed when f first wrote, and no third toggle of
\* the user ran.
RacedPair(e, f) ==
    /\ e # f
    /\ Returned(e) /\ IsToggle(e)
    /\ Returned(f) /\ IsToggle(f)
    /\ hs[e].user = hs[f].user
    /\ hs[e].group_task_ids # {} /\ hs[f].group_task_ids # {}
    /\ hs[e].group_task_ids # hs[f].group_task_ids
    /\ f \in hs[e].racedWith
    /\ e \in hs[f].precededBy
    /\ \A g \in Threads \ {e, f} : ~(IsToggle(g) /\ hs[g].user = hs[e].user)

\* C6: in Spec, when two toggles of one user on different groups both read
\* current_done before either wrote and the second writes after the first,
\* the first toggle's group ends holding what the second toggle had read,
\* not the first toggle's selection: whenever the two differ the first
\* update is lost although both handlers returned.
C6_LostUpdate ==
    \A e, f \in Threads :
        RacedPair(e, f)
        => LET A == hs[e].group_task_ids
               stored == SelectDone(db, hs[e].user) \cap A
           IN  /\ stored = hs[f].current_done \cap A
               /\ hs[e].selected # hs[f].current_done \cap A => stored # hs[e].selected

\* C6's case: the run has ended with the first toggle's update lost.
C6_Witness ==
    \E e, f \in Threads :
        /\ RacedPair(e, f)
        /\ hs[e].current_done = hs[f].current_done
        /\ hs[e].selected # {}
        /\ SelectDone(db, hs[e].user) \cap hs[e].group_task_ids # hs[e].selected
        /\ SelectDone(db, hs[f].user) \cap hs[f].group_task_ids = hs[f].selected

\* The toggle of thread h has made every UPDATE of its set_done_bulk.
SetAllWritten(h) ==
    IsToggle(h) /\ hs[h].pc \in {"set_commit", "view_exec", "view_fetch", "publish", "done"}

\* C10: in Spec, however the INSERT OR IGNOREs of ensure_user_rows(u) are
\* interleaved with those of another ensure_user_rows(u) or with the UPDATEs
\* of a toggle's set_done_bulk for u, no key (u, task) is ever stored twice,
\* and when the toggle (the only toggle of u) has written, every catalog
\* task of u holds the done value and the timestamp the toggle wrote.
C10_ConcurrentInitSafe ==
    /\ \A u \in Users, t \in TaskIds : Len(db[u][t]) <= 1
    /\ \A h \in Threads :
          (/\ SetAllWritten(h)
           /\ \A f \in Threads \ {h} : ~(IsToggle(f) /\ hs[f].user = hs[h].user))
          => \A t \in CatalogIds :
                db[hs[h].user][t] =
                    <<[done |-> IsDone(t, hs[h].new_done), updated_at |-> hs[h].now]>>

\* C10's case: an ensure_user_rows of the same user, begun after the toggle
\* entered set_done_bulk, is part-way through its inserts when the toggle
\* has made its last UPDATE and has set a task to done.
C10_Witness ==
    \E h, f \in Threads :
        /\ hs[h].pc = "set_commit" /\ IsToggle(h)
        /\ hs[h].new_done \cap CatalogIds # {}
        /\ f # h
        /\ hs[f].kind \in {"home_opened", "team_join", "onboard"}
        /\ hs[f].user = hs[h].user
        /\ hs[f].pc = "ensure" /\ hs[f].i > 1
        /\ hs[f].now > hs[h].now

\* The handlers that only ensure the rows and refresh the view.
IsRefresh(kind) == kind \in {"home_opened", "team_join", "onboard"}

\* The done values stored under the key (u, t).
DoneValues(tbl, u, t) == {tbl[u][t][k].done : k \in DOMAIN tbl[u][t]}

\* C12: in Spec, a step of a home-opened, team-join or /onboard handler
\* never changes the done value of a row that exists, and no
\* step of any handler removes a row: the keys in the table, as the
\* connection sees it and as committed, only grow.
C12_ReadOnlyTriggers ==
    [][/\ \A h \in Threads :
             (hs'[h] # hs[h] /\ IsRefresh(hs'[h].kind))
             => \A u \in Users, t \in TaskIds :
                   db[u][t] # <<>> => DoneValues(db', u, t) = DoneValues(db, u, t)
       /\ \A u \in Users, t \in TaskIds :
             /\ Len(db'[u][t]) >= Len(db[u][t])
             /\ Len(committed'[u][t]) >= Len(committed[u][t])]_vars

\* C12's case: a refresh handler of a user has returned, begun after a
\* toggle of that user had set a task to done, and the task is still done.
C12_Witness ==
    \E h, f \in Threads :
        /\ Returned(h) /\ IsRefresh(hs[h].kind)
        /\ Returned(f) /\ IsToggle(f) /\ hs[f].user = hs[h].user
        /\ hs[h].now > hs[f].now
        /\ \E t \in CatalogIds :
              /\ DoneValues(db, hs[h].user, t) = {1}
              /\ DoneValues(committed, hs[h].user, t) = {1}

\* The task ids a checkboxes element shows as checked.
PreChecked(el) ==
    IF "initial_options" \in DOMAIN el THEN SeqRange(el.initial_options) ELSE {}

\* The handler of thread h has built its view from the set in hs[h].done.
HasView(h) == hs[h].pc \in {"publish", "done"}

\* C13: in SpecSeq, a view built from a completed set D has, for every
\* catalog group, exactly one control; its options are all the tasks of the
\* group, each once; its pre-checked options are exactly the group's ids in
\* D; the group line reads (ids of the group in D, size of the group), and
\* the progress line reads (size of D, size of the catalog).
C13_ViewContent ==
    \A h \in Threads :
        HasView(h)
        => LET v == hs[h].view
               D == hs[h].done
           IN  /\ v.progress = <<Cardinality(D), Cardinality(CatalogIds)>>
               /\ \A g \in GroupNames :
                     /\ Cardinality({k \in DOMAIN v.groups : v.groups[k].group = g}) = 1
                     /\ \A k \in DOMAIN v.groups :
                           v.groups[k].group = g
                           => LET b == v.groups[k]
                              IN  /\ SeqRange(b.element.options) = GroupIds(g)
                                  /\ Len(b.element.options) = Cardinality(GroupIds(g))
                                  /\ PreChecked(b.element) = GroupIds(g) \cap D
                                  /\ b.count = <<Cardinality(GroupIds(g) \cap D),
                                                 Cardinality(GroupIds(g))>>
               /\ \A k \in DOMAIN v.groups : v.groups[k].group \in GroupNames

\* C13's case: a view has been published that was built from a completed
\* set holding every task of one group of two tasks and no task of another
\* group.
C13_Witness ==
    \E h \in Threads, g1, g2 \in GroupNames :
        /\ Returned(h)
        /\ published[hs[h].user] = hs[h].view
        /\ Cardinality(GroupIds(g1)) = 2
        /\ GroupIds(g1) \subseteq hs[h].done
        /\ GroupIds(g2) \cap hs[h].done = {}
        /\ \E k \in DOMAIN hs[h].view.groups :
              /\ hs[h].view.groups[k].group = g1
              /\ hs[h].view.groups[k].count = <<2, 2>>

\* C14: in SpecSeq, in every view built, the control of a group carries the
\* field initial_options if and only if some task of the group is in the
\* completed set the view was built from, and the field is never an empty
\* list.
C14_EmptySelectionOmitted ==
    \A h \in Threads :
        HasView(h)
        => \A k \in DOMAIN hs[h].view.groups :
              LET b == hs[h].view.groups[k]
                  present == "initial_options" \in DOMAIN b.element
              IN  /\ present <=> GroupIds(b.group) \cap hs[h].done # {}
                  /\ present => b.element.initial_options # <<>>

\* C14's case: a view has been published in which one group's control has
\* the field and another group's control has not.
C14_Witness ==
    \E h \in Threads :
        /\ Returned(h)
        /\ published[hs[h].user] = hs[h].view
        /\ \E j, k \in DOMAIN hs[h].view.groups :
              /\ "initial_options" \in DOMAIN hs[h].view.groups[j].element
              /\ "initial_options" \notin DOMAIN hs[h].view.groups[k].element
              /\ GroupIds(hs[h].view.groups[k].group) \cap hs[h].done = {}

\* ---------------------------------------------------- the worked sequence

\* The catalog has t1, t2 in a first group and t3 in a second one.  The
\* toggles of the worked sequence, in order: the first group with {t1}, the
\* second group with {t3}, the first group with {}.
ScenarioToggles ==
    <<[group |-> Catalog[1].group, selected |-> {Catalog[1].id}],
      [group |-> Catalog[3].group, selected |-> {Catalog[3].id}],
      [group |-> Catalog[1].group, selected |-> {}]>>

\* The next event of the sequence is accepted when the handler of the one
\* before has returned.
ScenarioAccept(rec) ==
    /\ \A j \in Threads : Finished(j)
    /\ dispatched' = dispatched + 1
    /\ hs' = [j \in Threads |-> IF j = 1 THEN rec ELSE Idle]
    /\ pre' = db

\* The first event: a handler that calls ensure_user_rows for a new user.
ScenarioEnsure(kind, u) ==
    /\ dispatched = 0
    /\ ScenarioAccept(EnsureFirst(kind, u))
    /\ clock' = clock + 1
    /\ UNCHANGED <<db, committed, cursor, published, messages>>

\* The events after it: the toggles, for the user of the first event.
ScenarioToggle(u) ==
    /\ dispatched \in 1..Len(ScenarioToggles)
    /\ published[u] # NoView
    /\ LET ev == ScenarioToggles[dispatched]
       IN  ScenarioAccept(ToggleFirst(u, ActionIdOf(ev.group), ev.selected))
    /\ UNCHANGED <<db, committed, cursor, published, messages, clock>>

NextScenario ==
    \/ \E u \in Users : ScenarioEnsure("home_opened", u)
    \/ \E u \in Users : ScenarioEnsure("team_join", u)
    \/ \E u \in Users : ScenarioEnsure("onboard", u)
    \/ \E u \in Users : ScenarioToggle(u)
    \/ \E h \in Threads : Step(h)

\* The worked sequence, one handler at a time.
SpecScenario == Init /\ [][NextScenario]_vars

\* The completed set and the progress line after each event of the sequence.
ScenarioDone ==
    <<{}, {Catalog[1].id}, {Catalog[1].id, Catalog[3].id}, {Catalog[3].id}>>

ScenarioProgress == <<<<0, 3>>, <<1, 3>>, <<2, 3>>, <<1, 3>>>>

\* C15: in SpecScenario (t1, t2 in one group, t3 in another, a new user),
\* when the handler of the k-th event of ensure, toggle G1 {t1}, toggle G2
\* {t3}, toggle G1 {} has returned, the user's completed set is the k-th of
\* {}, {t1}, {t1,t3}, {t3} and the published view's progress line is the
\* k-th of 0/3, 1/3, 2/3, 1/3.
C15_EndToEnd ==
    \A k \in DOMAIN ScenarioDone :
        (dispatched = k /\ Returned(1))
        => LET u == hs[1].user
           IN  /\ SelectDone(db, u) = ScenarioDone[k]
               /\ SelectDone(committed, u) = ScenarioDone[k]
               /\ published[u] # NoView
               /\ published[u].progress = ScenarioProgress[k]

\* C15's case: the last toggle of the sequence has returned.
C15_Witness ==
    /\ dispatched = Len(ScenarioDone)
    /\ Returned(1) /\ IsToggle(1)
    /\ hs[1].selected = {}
    /\ SelectDone(db, hs[1].user) = {Catalog[3].id}

\* The handler of thread h is the only one dispatched for its user: the
\* user's rows are written by no other handler.
OnlyHandlerOfUser(h) ==
    /\ hs[h].pc # "idle"
    /\ \A f \in Threads \ {h} : hs[f].user # hs[h].user

\* The toggle of thread h has fetched current_done.
HasRead(h) == IsToggle(h) /\ hs[h].pc \notin {"idle", "read_exec", "read_fetch"}

\* C16: in Spec, when a user u has one handler, running beside a handler
\* of another user v on the shared connection and cursor, the completed set
\* u's toggle reads is u's own (empty, u being new), the tasks stored as done
\* for u are among those u's handler selected, and the view u's handler
\* builds is built from u's own done tasks.
C16_CrossUserIsolation ==
    \A h \in Threads :
        OnlyHandlerOfUser(h)
        => LET u == hs[h].user
           IN  /\ HasRead(h) => hs[h].current_done = {}
               /\ SelectDone(db, u) \subseteq hs[h].selected
               /\ HasView(h) => hs[h].done = SelectDone(db, u)

\* Toggles e and f of one user on two different catalog groups have both
\* returned.
BothToggled(e, f) ==
    /\ e # f
    /\ Returned(e) /\ IsToggle(e)
    /\ Returned(f) /\ IsToggle(f)
    /\ hs[e].user = hs[f].user
    /\ hs[e].group_task_ids # {} /\ hs[f].group_task_ids # {}
    /\ hs[e].group_task_ids \cap hs[f].group_task_ids = {}

\* C17: in Spec, when two concurrent toggles of one user on different
\* groups A and B have both returned, at least one of the two groups holds
\* exactly the selection its toggle reported.
C17_AtMostOneLost ==
    \A e, f \in Threads :
        BothToggled(e, f)
        => LET stored == SelectDone(db, hs[e].user)
           IN  \/ stored \cap hs[e].group_task_ids = hs[e].selected
               \/ stored \cap hs[f].group_task_ids = hs[f].selected

\* ------------------------------------------------- the action id round trip

\* The groups of the whole of TASKS and the task ids of each.
AllGroupNames == {TASKS[k].group : k \in DOMAIN TASKS}

AllGroupIds(g) == {TASKS[k].id : k \in {j \in DOMAIN TASKS : TASKS[j].group = g}}

\* A toggle action as the control of group g in a published view sends it:
\* the action id build_home_view gave the control, and some of its options.
InitRoundTrip ==
    /\ db = EmptyTable
    /\ committed = EmptyTable
    /\ cursor = {}
    /\ published = [u \in Users |-> NoView]
    /\ messages = [u \in Users |-> 0]
    /\ clock = 1
    /\ dispatched = 1
    /\ pre = EmptyTable
    /\ \E u \in Users, g \in AllGroupNames :
          \E S \in SUBSET AllGroupIds(g) :
             hs = [h \in Threads |->
                      IF h = 1
                      THEN [Idle EXCEPT !.pc = "accepted", !.kind = "toggle",
                                        !.user = u, !.action_id = ActionIdOf(g),
                                        !.selected = S]
                      ELSE Idle]

\* handle_toggle_any_group up to group_task_ids, on the whole of TASKS.
resolve_group(h) ==
    /\ hs[h].pc = "accepted"
    /\ hs' = [hs EXCEPT ![h].group_task_ids =
                            TaskIdsOfKey(TASKS, GroupKey(hs[h].action_id)),
                        ![h].pc = "resolved"]
    /\ UNCHANGED <<db, committed, cursor, published, messages, clock, dispatched, pre>>

NextRoundTrip == \E h \in Threads : resolve_group(h)

\* Every control of the view of the whole catalog, clicked once.
SpecRoundTrip == InitRoundTrip /\ [][NextRoundTrip]_vars

\* C18: in SpecRoundTrip, for every group g of TASKS, the action id
\* build_home_view gives g's control resolves in handle_toggle_any_group to
\* exactly the task ids of g and to no task id of another group.
C18_ActionIdRoundTrip ==
    \A h \in Threads, g \in AllGroupNames :
        (hs[h].pc = "resolved" /\ hs[h].action_id = ActionIdOf(g))
        => /\ hs[h].group_task_ids = AllGroupIds(g)
           /\ \A g2 \in AllGroupNames \ {g} :
                 hs[h].group_task_ids \cap AllGroupIds(g2) = {}

\* C18's case: the action of the last group's control has been resolved to
\* that group's three tasks.
C18_Witness ==
    \E h \in Threads :
        /\ hs[h].pc = "resolved"
        /\ hs[h].action_id = ActionIdOf(Culture)
        /\ Cardinality(hs[h].group_task_ids) = 3
        /\ Cardinality(AllGroupNames) = 4

\* ------------------------------------------------------------ store failures

\* The store calls of a handler: every cur.execute, cur.fetchall and
\* conn.commit.
AtStoreCall(h) ==
    hs[h].pc \in {"read_exec", "read_fetch", "ensure", "ensure_commit",
                  "set", "set_commit", "view_exec", "view_fetch"}

\* The store call thread h is about to make raises (sqlite3.Error).  No
\* handler catches anything and none rolls back: the exception leaves the
\* handler, which makes no further call, and what the handler had written on
\* the shared connection stays in the open transaction.  A cur.execute that
\* raises may or may not have cleared the result the cursor held.
store_fails(h) ==
    /\ AtStoreCall(h)
    /\ hs' = [hs EXCEPT ![h].pc = "failed"]
    /\ \/ cursor' = cursor
       \/ /\ hs[h].pc \in {"read_exec", "ensure", "set", "view_exec"}
          /\ cursor' = {}
    /\ UNCHANGED <<db, committed, published, messages, clock, dispatched, pre>>

NextFail ==
    \/ Next
    \/ \E h \in Threads : store_fails(h)

\* Spec with store calls that may fail.
SpecFail == Init /\ [][NextFail]_vars

\* A store call of the handler of thread h has failed.
Failed(h) == hs[h].pc = "failed"

\* C11: in SpecFail, when a store call of the only handler of a new user u
\* has failed, no view has been published for u, and the completed set of u,
\* as committed by any handler up to now, is the one before the invocation
\* (empty) or the whole new one the handler was writing.
C11_CleanAbort ==
    \A h \in Threads :
        (Failed(h) /\ OnlyHandlerOfUser(h))
        => LET u == hs[h].user
           IN  /\ published[u] = NoView
               /\ SelectDone(committed, u) \in {{}, hs[h].new_done \cap CatalogIds}

\* ------------------------------------------------------- run to completion

\* The users whose events SpecLive dispatches: the handlers that run side
\* by side are those of one user, which work on the same rows.
LiveUsers == {"U1"}

NextLive ==
    \/ \E h \in Threads : CanAccept(h, FALSE) /\ \E u \in LiveUsers :
          handle_home_opened(h, u, FALSE)
    \/ \E h \in Threads : CanAccept(h, FALSE) /\ \E u \in LiveUsers :
          handle_team_join(h, u, FALSE)
    \/ \E h \in Threads : CanAccept(h, FALSE) /\ \E u \in LiveUsers :
          cmd_onboard(h, u, FALSE)
    \/ \E h \in Threads : CanAccept(h, FALSE) /\ \E u \in LiveUsers, g \in GroupNames :
          \E S \in SUBSET GroupIds(g) :
             handle_toggle_any_group(h, u, ActionIdOf(g), S, FALSE)
    \/ \E h \in Threads : Step(h)
    \/ \E h \in Threads : store_fails(h)

\* Concurrent handlers whose store calls may fail, every handler thread
\* scheduled again and again while it has a step to make (the pool's
\* threads are scheduled by the operating system).
SpecLive == Init /\ [][NextLive]_vars /\ \A h \in Threads : WF_vars(Step(h))

\* The handler of thread h has been accepted and has not ended.
Running(h) == hs[h].pc \notin {"idle", "done", "failed"}

\* C19: in SpecLive, a handler that is running can always make its next
\* step, whatever the other handlers are doing, and every accepted event's
\* handler eventually ends: with views_publish done for its user, or with a
\* store call that failed.
C19_RunToCompletion ==
    /\ [](\A h \in Threads : Running(h) => ENABLED Step(h))
    /\ \A h \in Threads : (hs[h].pc # "idle") ~> (Returned(h) \/ Failed(h))

\* C19's case: a toggle has returned, its view published, although a
\* handler of the same user that began before it is still in its inserts.
C19_Witness ==
    \E h, f \in Threads :
        /\ f < h
        /\ Returned(h) /\ IsToggle(h)
        /\ published[hs[h].user] = hs[h].view
        /\ hs[f].user = hs[h].user
        /\ hs[f].pc = "ensure"

====
